---- MODULE Spec2Model ----
(***************************************************************************)
(* pdf2excel.py: OCR text fragments of a PDF are grouped into rows by      *)
(* their `top` coordinate, ordered inside each row by `left`, and the      *)
(* trimmed texts are written to a spreadsheet.                             *)
(*                                                                         *)
(* A text is a sequence of one-character strings.  A text block is the     *)
(* dict of analyze_table_structure, [text, left, right, top, bottom], plus *)
(* `nonnumeric`: the keys whose Python value is not a number (None); the   *)
(* integer stored under such a key is never read.                          *)
(***************************************************************************)
EXTENDS Integers, Sequences, FiniteSets, TLC

VARIABLES
    pc,              \* position in main / organize_into_table
    caller,          \* "main", or "direct" for a call of organize_into_table
    pdf_state,       \* the file at pdf_path: "ok", "missing" or "unreadable"
    images,          \* main: len(images)
    all_text_data,   \* main: the OCR responses collected so far
    page,            \* main: index of the page analyze_table_structure is at
    table_data,      \* main: the flattened text blocks of all pages
    text_blocks,     \* organize_into_table: its argument
    sorted_blocks,   \* group_text_into_rows: sorted_blocks
    rows,            \* group_text_into_rows: rows
    current_row,     \* group_text_into_rows: current_row
    current_row_y,   \* group_text_into_rows: current_row_y
    i,               \* group_text_into_rows: index in sorted_blocks of the next block
    sorted_row,      \* organize_into_table: sorted_row of the latest iteration
    organized_table, \* organize_into_table: organized_table
    excel_file,      \* <<>> while extracted_table.xlsx is not written, else <<table>>
    result,          \* how the call ended: "running", "None", "table" or an exception
    prev_table       \* <<>>, or <<table>> returned by the previous call on these blocks

vars == <<pc, caller, pdf_state, images, all_text_data, page, table_data,
          text_blocks, sorted_blocks, rows, current_row, current_row_y, i,
          sorted_row, organized_table, excel_file, result, prev_table>>

mainVars == <<pdf_state, images, all_text_data, page, table_data, excel_file>>
groupVars == <<sorted_blocks, rows, current_row, current_row_y, i>>

(***************************************************************************)
(* Bounds of the model.                                                    *)
(***************************************************************************)
MaxBlocks == 4
MaxTop == 9
MaxCells == 3
MaxPages == 2
MaxAnnotations == 1

(***************************************************************************)
(* Python helpers.                                                         *)
(***************************************************************************)
Whitespace == {" "}

RECURSIVE lstrip(_)
lstrip(s) == IF s = <<>> THEN s
             ELSE IF Head(s) \in Whitespace THEN lstrip(Tail(s)) ELSE s

RECURSIVE rstrip(_)
rstrip(s) == IF s = <<>> THEN s
             ELSE IF s[Len(s)] \in Whitespace THEN rstrip(SubSeq(s, 1, Len(s) - 1)) ELSE s

\* str.strip()
strip(s) == rstrip(lstrip(s))

Abs(n) == IF n < 0 THEN -n ELSE n

Min(S) == CHOOSE m \in S : \A n \in S : m <= n
Max(S) == CHOOSE m \in S : \A n \in S : n <= m

\* list insertion that puts a new element in front of its equals
InsertBefore(s, x, key) ==
    LET p == Cardinality({j \in 1..Len(s) : s[j][key] < x[key]})
    IN  SubSeq(s, 1, p) \o <<x>> \o SubSeq(s, p + 1, Len(s))

\* list insertion that keeps equal keys in arrival order
InsertStable(s, x, key) ==
    LET p == Cardinality({j \in 1..Len(s) : s[j][key] <= x[key]})
    IN  SubSeq(s, 1, p) \o <<x>> \o SubSeq(s, p + 1, Len(s))

\* sorted() left out: the blocks in input order
unsorted(blocks, key) == blocks

\* sorted(blocks, key=lambda x: x[key]): ascending and stable
RECURSIVE sorted(_, _)
sorted(blocks, key) ==
    IF blocks = <<>> THEN <<>>
    ELSE InsertStable(sorted(SubSeq(blocks, 1, Len(blocks) - 1), key),
                      blocks[Len(blocks)], key)

\* sorted() compares every element of a list of two or more with a neighbour,
\* and '<' between None and anything raises TypeError
SortRaises(blocks, key) ==
    Len(blocks) >= 2 /\ \E k \in 1..Len(blocks) : key \in blocks[k].nonnumeric

(***************************************************************************)
(* analyze_table_structure                                                 *)
(***************************************************************************)
\* min() of the empty list raises ValueError
AnalyzeRaises(text_data) ==
    \E k \in 1..Len(text_data) :
        text_data[k].description # <<>> /\ text_data[k].vertices = <<>>

\* `if annotation.description:` is true of every non-empty string
Truthy(description) == description # <<>>

TextBlock(annotation) ==
    LET vertices == annotation.vertices
        x_coords == {vertices[k].x : k \in 1..Len(vertices)}
        y_coords == {vertices[k].y : k \in 1..Len(vertices)}
    IN  [text |-> annotation.description,
         left |-> Min(x_coords), right |-> Max(x_coords),
         top |-> Min(y_coords), bottom |-> Max(y_coords),
         nonnumeric |-> {}]

RECURSIVE analyze_table_structure(_)
analyze_table_structure(text_data) ==
    IF text_data = <<>> THEN <<>>
    ELSE IF Truthy(Head(text_data).description)
         THEN <<TextBlock(Head(text_data))>> \o analyze_table_structure(Tail(text_data))
         ELSE analyze_table_structure(Tail(text_data))

(***************************************************************************)
(* group_text_into_rows                                                    *)
(***************************************************************************)
RowThreshold == 5

\* the 10 pixels of the comment on the comparison
SameRowWide(block, row_y) == Abs(block.top - row_y) <= RowThreshold + RowThreshold

\* y_difference < 5
SameRowStrict(block, row_y) == Abs(block.top - row_y) < RowThreshold

\* y_difference <= 5, measured from current_row_y
SameRow(block, row_y) == Abs(block.top - row_y) <= RowThreshold

\* entry: the empty case, the sort and the first row
Group ==
    /\ pc = "group"
    /\ IF text_blocks = <<>>
       THEN /\ rows' = <<>>
            /\ pc' = "columns"
            /\ UNCHANGED <<sorted_blocks, current_row, current_row_y, i, result>>
       ELSE IF SortRaises(text_blocks, "top")
       THEN /\ pc' = "exit"
            /\ result' = "TypeError"
            /\ UNCHANGED groupVars
       ELSE /\ sorted_blocks' = sorted(text_blocks, "top")
            /\ rows' = <<>>
            /\ current_row' = <<sorted_blocks'[1]>>
            /\ current_row_y' = sorted_blocks'[1].top
            /\ i' = 2
            /\ pc' = "loop"
            /\ UNCHANGED result
    /\ UNCHANGED <<caller, mainVars, text_blocks, sorted_row, organized_table, prev_table>>

\* the iteration with the anchor moved to each block that joins the row
GroupStepDrift ==
    /\ pc = "loop"
    /\ i <= Len(sorted_blocks)
    /\ LET block == sorted_blocks[i]
       IN  IF SameRow(block, current_row_y)
           THEN /\ current_row' = Append(current_row, block)
                /\ current_row_y' = block.top
                /\ UNCHANGED rows
           ELSE /\ rows' = Append(rows, current_row)
                /\ current_row' = <<block>>
                /\ current_row_y' = block.top
    /\ i' = i + 1
    /\ UNCHANGED <<pc, caller, mainVars, text_blocks, sorted_blocks, sorted_row,
                   organized_table, result, prev_table>>

\* one iteration of `for block in sorted_blocks[1:]`
GroupStep ==
    /\ pc = "loop"
    /\ i <= Len(sorted_blocks)
    /\ LET block == sorted_blocks[i]
       IN  IF SameRow(block, current_row_y)
           THEN /\ current_row' = Append(current_row, block)
                /\ UNCHANGED <<rows, current_row_y>>
           ELSE /\ rows' = Append(rows, current_row)
                /\ current_row' = <<block>>
                /\ current_row_y' = block.top
    /\ i' = i + 1
    /\ UNCHANGED <<pc, caller, mainVars, text_blocks, sorted_blocks, sorted_row,
                   organized_table, result, prev_table>>

\* the return without the append of the last row
GroupFinishNoAppend ==
    /\ pc = "loop"
    /\ i > Len(sorted_blocks)
    /\ pc' = "columns"
    /\ UNCHANGED <<caller, mainVars, text_blocks, groupVars, sorted_row,
                   organized_table, result, prev_table>>

\* after the loop: rows.append(current_row); return rows
GroupFinish ==
    /\ pc = "loop"
    /\ i > Len(sorted_blocks)
    /\ rows' = Append(rows, current_row)
    /\ pc' = "columns"
    /\ UNCHANGED <<caller, mainVars, text_blocks, sorted_blocks, current_row,
                   current_row_y, i, sorted_row, organized_table, result, prev_table>>

(***************************************************************************)
(* sort_row_into_columns, organize_into_table                              *)
(***************************************************************************)
\* the row as grouped, not sorted
unsorted_row(row_blocks) == row_blocks

sort_row_into_columns(row_blocks) == sorted(row_blocks, "left")

row_texts(row) == [k \in 1..Len(row) |-> strip(row[k].text)]

\* one iteration of `for row in rows`
OrganizeRow ==
    /\ pc = "columns"
    /\ Len(organized_table) < Len(rows)
    /\ LET row == rows[Len(organized_table) + 1]
       IN  IF SortRaises(row, "left")
           THEN /\ pc' = "exit"
                /\ result' = "TypeError"
                /\ UNCHANGED <<sorted_row, organized_table>>
           ELSE /\ sorted_row' = sort_row_into_columns(row)
                /\ organized_table' = Append(organized_table, row_texts(sorted_row'))
                /\ UNCHANGED <<pc, result>>
    /\ UNCHANGED <<caller, mainVars, text_blocks, groupVars, prev_table>>

\* return organized_table
OrganizeReturn ==
    /\ pc = "columns"
    /\ Len(organized_table) = Len(rows)
    /\ IF caller = "main"
       THEN pc' = "write" /\ UNCHANGED result
       ELSE pc' = "returned" /\ result' = "table"
    /\ UNCHANGED <<caller, mainVars, text_blocks, groupVars, sorted_row,
                   organized_table, prev_table>>

NextCore == Group \/ GroupStep \/ GroupFinish \/ OrganizeRow \/ OrganizeReturn

(***************************************************************************)
(* main                                                                    *)
(***************************************************************************)
\* a bounding polygon: the four corners of the box at (left, top)
Box(left, top) == <<[x |-> left, y |-> top], [x |-> left + 1, y |-> top],
                    [x |-> left + 1, y |-> top + 1], [x |-> left, y |-> top + 1]>>

Descriptions == {<<>>, <<" ">>, <<"A", " ">>}
Polygons == {<<>>, Box(0, 0), Box(0, MaxTop)}
Annotations == [description : Descriptions, vertices : Polygons]

SeqsUpTo(S, n) == UNION {[1..k -> S] : k \in 0..n}

\* the text_annotations of one response of client.text_detection
Responses == SeqsUpTo(Annotations, MaxAnnotations)

\* the except branch without its return: main goes on with no images
MainConvertNoReturn ==
    /\ pc = "convert"
    /\ IF pdf_state = "ok"
       THEN \E n \in 1..MaxPages : images' = n
       ELSE UNCHANGED images
    /\ pc' = "ocr"
    /\ UNCHANGED <<caller, pdf_state, all_text_data, page, table_data, text_blocks,
                   groupVars, sorted_row, organized_table, excel_file, result, prev_table>>

\* try: images = convert_pdf_to_images(pdf_path) / except Exception: return None
MainConvert ==
    /\ pc = "convert"
    /\ IF pdf_state = "ok"
       THEN /\ \E n \in 1..MaxPages : images' = n
            /\ pc' = "ocr"
            /\ UNCHANGED result
       ELSE /\ pc' = "exit"
            /\ result' = "None"
            /\ UNCHANGED images
    /\ UNCHANGED <<caller, pdf_state, all_text_data, page, table_data, text_blocks,
                   groupVars, sorted_row, organized_table, excel_file, prev_table>>

\* one iteration of `for i, image in enumerate(images)`; an exception of the
\* OCR call is not caught by main
MainOcr ==
    /\ pc = "ocr"
    /\ IF Len(all_text_data) < images
       THEN \E ok \in BOOLEAN, page_data \in Responses :
                IF ok
                THEN /\ all_text_data' = Append(all_text_data, page_data)
                     /\ UNCHANGED <<pc, result>>
                ELSE /\ pc' = "exit"
                     /\ result' = "OcrError"
                     /\ UNCHANGED all_text_data
       ELSE /\ pc' = "analyze"
            /\ UNCHANGED <<all_text_data, result>>
    /\ UNCHANGED <<caller, pdf_state, images, page, table_data, text_blocks,
                   groupVars, sorted_row, organized_table, excel_file, prev_table>>

\* one iteration of `for page_data in all_text_data`, then the call of
\* organize_into_table(table_data)
MainAnalyze ==
    /\ pc = "analyze"
    /\ IF page <= Len(all_text_data)
       THEN IF AnalyzeRaises(all_text_data[page])
            THEN /\ pc' = "exit"
                 /\ result' = "ValueError"
                 /\ UNCHANGED <<page, table_data, text_blocks>>
            ELSE /\ table_data' = table_data \o analyze_table_structure(all_text_data[page])
                 /\ page' = page + 1
                 /\ UNCHANGED <<pc, result, text_blocks>>
       ELSE /\ text_blocks' = table_data
            /\ pc' = "group"
            /\ UNCHANGED <<page, table_data, result>>
    /\ UNCHANGED <<caller, pdf_state, images, all_text_data, groupVars, sorted_row,
                   organized_table, excel_file, prev_table>>

\* write_table_to_excel(oraganized_table, "extracted_table.xlsx"); main ends
MainWrite ==
    /\ pc = "write"
    /\ excel_file' = <<organized_table>>
    /\ pc' = "exit"
    /\ result' = "None"
    /\ UNCHANGED <<caller, pdf_state, images, all_text_data, page, table_data,
                   text_blocks, groupVars, sorted_row, organized_table, prev_table>>

(***************************************************************************)
(* A second call of organize_into_table on a permutation of the blocks.    *)
(***************************************************************************)
Permuted(s) ==
    {[k \in 1..Len(s) |-> s[p[k]]] :
        p \in {q \in [1..Len(s) -> 1..Len(s)] :
                 \A a, b \in 1..Len(s) : q[a] = q[b] => a = b}}

Rerun ==
    /\ pc = "returned"
    /\ \E blocks \in Permuted(text_blocks) : text_blocks' = blocks
    /\ prev_table' = <<organized_table>>
    /\ pc' = "group"
    /\ result' = "running"
    /\ sorted_blocks' = <<>>
    /\ rows' = <<>>
    /\ current_row' = <<>>
    /\ current_row_y' = 0
    /\ i' = 0
    /\ sorted_row' = <<>>
    /\ organized_table' = <<>>
    /\ UNCHANGED <<caller, mainVars>>

(***************************************************************************)
(* Specifications.                                                         *)
(***************************************************************************)
Locals ==
    /\ sorted_blocks = <<>>
    /\ rows = <<>>
    /\ current_row = <<>>
    /\ current_row_y = 0
    /\ i = 0
    /\ sorted_row = <<>>
    /\ organized_table = <<>>
    /\ excel_file = <<>>
    /\ result = "running"
    /\ prev_table = <<>>
    /\ images = 0
    /\ all_text_data = <<>>
    /\ page = 1
    /\ table_data = <<>>

\* python pdf2excel.py <path>
Init ==
    /\ pc = "convert"
    /\ caller = "main"
    /\ pdf_state \in {"ok", "missing", "unreadable"}
    /\ text_blocks = <<>>
    /\ Locals

Next == MainConvert \/ MainOcr \/ MainAnalyze \/ NextCore \/ MainWrite

Spec == Init /\ [][Next]_vars

\* organize_into_table(blocks)
Call(blocks) ==
    /\ pc = "group"
    /\ caller = "direct"
    /\ pdf_state = "ok"
    /\ text_blocks = blocks
    /\ Locals

Block(t, l, txt, bad) ==
    [text |-> txt, left |-> l, right |-> l, top |-> t, bottom |-> t, nonnumeric |-> bad]

\* fragments of one column: at every height of the top of the page, and on
\* one line further down
FarTop == MaxTop + RowThreshold + 1
RowBlocks == {Block(t, 0, <<"A">>, {}) : t \in (0..MaxTop) \cup {FarTop}}

InitRows == \E blocks \in SeqsUpTo(RowBlocks, MaxBlocks) : Call(blocks)

SpecRows == InitRows /\ [][NextCore]_vars

\* fragments of two lines and a line between them, in two columns
TableTops == {0, RowThreshold - 1, MaxTop}
TableLefts == {0, 50}
TableTexts == {<<"A">>, <<" ", "B">>}
TableBlocks == {Block(t, l, txt, {}) : t \in TableTops, l \in TableLefts, txt \in TableTexts}

InitTable == \E blocks \in SeqsUpTo(TableBlocks, MaxCells) : Call(blocks)

NextTable == NextCore \/ Rerun

SpecTable == InitTable /\ [][NextTable]_vars

\* fragments whose `top` or `left` may be None
MalformedBlocks ==
    {Block(t, l, <<"A">>, bad) : t \in {0, MaxTop}, l \in TableLefts,
                                 bad \in SUBSET {"top", "left"}}

InitMalformed == \E blocks \in SeqsUpTo(MalformedBlocks, MaxCells) : Call(blocks)

SpecMalformed == InitMalformed /\ [][NextCore]_vars

(***************************************************************************)
(* Vocabulary of the properties.                                           *)
(***************************************************************************)
Returned == pc = "returned"

RECURSIVE Flatten(_)
Flatten(ss) == IF ss = <<>> THEN <<>> ELSE Head(ss) \o Flatten(Tail(ss))

Range(s) == {s[k] : k \in 1..Len(s)}
Count(s, x) == Cardinality({k \in 1..Len(s) : s[k] = x})

\* the same elements with the same multiplicities
SameBag(s, t) ==
    /\ Len(s) = Len(t)
    /\ \A x \in Range(s) \cup Range(t) : Count(s, x) = Count(t, x)

\* <<row, place in the row>> of every fragment of the rows
Positions(rr) == UNION {{<<a, j>> : j \in 1..Len(rr[a])} : a \in 1..Len(rr)}

C3_TopToBottom ==
    Returned =>
        /\ SameBag(Flatten(rows), text_blocks)
        /\ \A p, q \in Positions(rows) :
               /\ rows[p[1]][p[2]].top < rows[q[1]][q[2]].top => p[1] <= q[1]
               /\ p[1] < q[1] => rows[p[1]][p[2]].top <= rows[q[1]][q[2]].top
        /\ \A a \in 1..Len(rows) - 1 : rows[a][1].top < rows[a + 1][1].top

C3_Witness ==
    /\ Returned
    /\ Len(rows) >= 3
    /\ text_blocks[1].top > text_blocks[Len(text_blocks)].top
    /\ \E a \in 1..Len(rows) : Len(rows[a]) >= 2

\* C5: a loop iteration puts the block into the current row exactly when its
\* top is within 5 of the top of the row's first fragment, and then the anchor
\* stays; otherwise the row is closed and the block starts the next row and is
\* its anchor.  Tops 0, 3, 4, 9 give the rows {0, 3, 4} and {9}.
C5_Iteration ==
    (pc = "loop" /\ i <= Len(sorted_blocks)) =>
        LET block == sorted_blocks[i]
        IN  IF Abs(block.top - current_row[1].top) <= 5
            THEN /\ current_row' = Append(current_row, block)
                 /\ current_row'[1] = current_row[1]
                 /\ current_row_y' = current_row_y
                 /\ rows' = rows
            ELSE /\ rows' = Append(rows, current_row)
                 /\ current_row' = <<block>>
                 /\ current_row_y' = block.top

TopsOf(s) == [k \in 1..Len(s) |-> s[k].top]

C5_Example ==
    (Returned /\ TopsOf(sorted_blocks) = <<0, 3, 4, 9>>) =>
        /\ Len(rows) = 2
        /\ TopsOf(rows[1]) = <<0, 3, 4>>
        /\ TopsOf(rows[2]) = <<9>>

C9_RowsApart ==
    \A p, q \in Positions(rows) :
        p[1] # q[1] =>
            \/ Abs(rows[p[1]][p[2]].top - rows[q[1]][1].top) > 5
            \/ Abs(rows[q[1]][q[2]].top - rows[p[1]][1].top) > 5

C9_Witness ==
    /\ Returned
    /\ \E p, q \in Positions(rows) :
           /\ p[1] # q[1]
           /\ Abs(rows[p[1]][p[2]].top - rows[q[1]][1].top) <= 5
           /\ Abs(rows[p[1]][p[2]].top - rows[q[1]][q[2]].top) = 1

\* C4: the cells of every record are in non-decreasing order of the left of
\* their fragments, fragments of equal left keep the order they had in the
\* row given to sort_row_into_columns, and the record is the trimmed texts of
\* the sorted row.  (Every record is the last one when it is appended.)
C4_ColumnsOrdered ==
    (pc \in {"columns", "returned"} /\ organized_table # <<>>) =>
        LET n == Len(organized_table)
            row == rows[n]
        IN  /\ Len(sorted_row) = Len(row)
            /\ \A j \in 1..Len(sorted_row) - 1 : sorted_row[j].left <= sorted_row[j + 1].left
            /\ \A l \in {row[k].left : k \in 1..Len(row)} :
                   SelectSeq(sorted_row, LAMBDA b : b.left = l) =
                   SelectSeq(row, LAMBDA b : b.left = l)
            /\ organized_table[n] = [j \in 1..Len(sorted_row) |-> strip(sorted_row[j].text)]

C4_Witness ==
    /\ Returned
    /\ Len(rows) = 1
    /\ Len(rows[1]) = 3
    /\ rows[1][1].left > rows[1][2].left
    /\ rows[1][1].left = rows[1][3].left
    /\ rows[1][1].text # rows[1][3].text
    /\ organized_table[1][2] # organized_table[1][3]

CellsOf(table) == Flatten(table)

\* C10: the rows partition the input (with multiplicity), no row is empty,
\* the table has one record per row holding the trimmed texts of the row's
\* fragments, so as many cells as there are fragments; no fragments give the
\* empty table and no error.
C10_Partition ==
    Returned =>
        /\ SameBag(Flatten(rows), text_blocks)
        /\ \A a \in 1..Len(rows) : rows[a] # <<>>
        /\ Len(organized_table) = Len(rows)
        /\ \A a \in 1..Len(rows) :
               SameBag(organized_table[a], [j \in 1..Len(rows[a]) |-> strip(rows[a][j].text)])
        /\ Len(CellsOf(organized_table)) = Len(text_blocks)
        /\ text_blocks = <<>> => organized_table = <<>>
        /\ result = "table"

C10_Witness ==
    /\ Returned
    /\ Len(text_blocks) = 3
    /\ text_blocks[1] = text_blocks[3]
    /\ text_blocks[1].top > text_blocks[2].top + 5
    /\ Len(rows) = 2

\* fragments at the same top and left all show the same cell
TiesAgree(blocks) ==
    \A a, b \in 1..Len(blocks) :
        (blocks[a].top = blocks[b].top /\ blocks[a].left = blocks[b].left) =>
            strip(blocks[a].text) = strip(blocks[b].text)

\* C2 as stated: a second call on any permutation of the blocks returns the
\* table of the first call.
C2_AnyPermutation ==
    (Returned /\ prev_table # <<>>) => organized_table = prev_table[1]

\* C2, amended: it does when no two fragments at the same top and left have
\* different trimmed texts.
C2_PermutationTiesAgree ==
    (Returned /\ prev_table # <<>> /\ TiesAgree(text_blocks)) =>
        organized_table = prev_table[1]

C2_Witness ==
    /\ Returned
    /\ prev_table # <<>>
    /\ TiesAgree(text_blocks)
    /\ Len(text_blocks) = 3
    /\ text_blocks[1].top = text_blocks[2].top
    /\ text_blocks[1].left > text_blocks[2].left
    /\ text_blocks[1].text # text_blocks[2].text
    /\ text_blocks[3].left = text_blocks[1].left
    /\ text_blocks[3].top < text_blocks[1].top
    /\ Len(rows) = 1

\* the PDF could not be converted, or an OCR call failed before every page
\* had its response
UpstreamFailed ==
    /\ caller = "main"
    /\ pc = "exit"
    /\ pdf_state # "ok" \/ Len(all_text_data) < images

\* C8 as stated: an upstream failure ends main with the error kind
\* ExtractionFailed, no table organized and no spreadsheet written.
C8_ExtractionFailed ==
    UpstreamFailed =>
        /\ result = "ExtractionFailed"
        /\ organized_table = <<>>
        /\ excel_file = <<>>

\* C8, amended: after an upstream failure no table is organized and no
\* spreadsheet is written; a failed conversion is caught and main returns None,
\* as a successful run does, and a failed OCR call leaves main as the
\* exception the OCR client raised.
C8_NoTableNoFile ==
    UpstreamFailed =>
        /\ result = IF pdf_state # "ok" THEN "None" ELSE "OcrError"
        /\ text_blocks = <<>>
        /\ rows = <<>>
        /\ organized_table = <<>>
        /\ excel_file = <<>>

C8_Witness ==
    /\ UpstreamFailed
    /\ pdf_state = "ok"
    /\ images = 2
    /\ Len(all_text_data) = 1
    /\ \E k \in 1..Len(all_text_data[1]) :
           /\ Truthy(all_text_data[1][k].description)
           /\ all_text_data[1][k].vertices # <<>>

\* C6: analyze_table_structure lets no fragment through whose text is empty
\* after trimming, so no cell of the table of organize_into_table is the
\* empty string.
C6_NoEmptyCell ==
    \A a \in 1..Len(organized_table) : \A j \in 1..Len(organized_table[a]) :
        organized_table[a][j] # <<>>

\* C7: with a malformed fragment (a top or left that is no number) in the
\* collection, organize_into_table fails: it returns no table, neither with
\* the malformed fragment in it nor built from the others.
C7_MalformedRejected ==
    (\E k \in 1..Len(text_blocks) : text_blocks[k].nonnumeric # {}) =>
        /\ pc # "returned"
        /\ result # "table"

====
